---- MODULE Spec2Model ----
(***************************************************************************)
(* A model of the Sparc machine-code emitter                               *)
(* (llvm/lib/Target/Sparc/MCTargetDesc/SparcMCCodeEmitter.cpp): the two    *)
(* 5-bit compact immediate codecs, the operand resolvers with the fixups   *)
(* they record, and encodeInstruction with its emission counter.           *)
(***************************************************************************)
EXTENDS Integers, Sequences, FiniteSets

(***************************************************************************)
(* Bounds of the model.                                                    *)
(***************************************************************************)
\* Codec inputs are drawn from -MaxImm .. MaxImm (both declared domains,
\* [0,255] and [-128,127], lie strictly inside).
MaxImm == 300
\* encodeInstruction is called while MCNumEmitted < MaxEmitted.
MaxEmitted == 2
\* The caller's fixup list holds at most MaxPrior fixups when a call starts.
MaxPrior == 1

(***************************************************************************)
(* Machine integers.  `unsigned' is 32 bits wide; an unsigned value is     *)
(* kept as its two 16-bit halves, so that the conversion of a negative     *)
(* int64_t to unsigned (reduction modulo 2^32) is computed and not assumed *)
(* to be the identity.                                                     *)
(***************************************************************************)
HalfWord == 65536

ToUnsigned(x) == [hi |-> (x \div HalfWord) % HalfWord, lo |-> x % HalfWord]

RECURSIVE Pow2(_)
Pow2(n) == IF n = 0 THEN 1 ELSE 2 * Pow2(n - 1)

RECURSIVE BitAnd(_, _)
BitAnd(a, b) ==
    IF a = 0 \/ b = 0 THEN 0
    ELSE (IF a % 2 = 1 /\ b % 2 = 1 THEN 1 ELSE 0) + 2 * BitAnd(a \div 2, b \div 2)

RECURSIVE BitOr(_, _)
BitOr(a, b) ==
    IF a = 0 THEN b
    ELSE IF b = 0 THEN a
    ELSE (IF a % 2 = 1 \/ b % 2 = 1 THEN 1 ELSE 0) + 2 * BitOr(a \div 2, b \div 2)

Shr(a, n) == a \div Pow2(n)

Shl(a, n) == a * Pow2(n)

\* __builtin_ctz on a non-zero argument: the position of the lowest set bit.
RECURSIVE builtin_ctz(_)
builtin_ctz(v) == IF v % 2 = 1 THEN 0 ELSE 1 + builtin_ctz(v \div 2)

\* C++ `%' truncates towards zero: the remainder has the dividend's sign.
CRem2(v) == IF v >= 0 THEN v % 2 ELSE 0 - ((0 - v) % 2)

(***************************************************************************)
(* The compact immediate codecs.  A codec call ends in st = "ok" with the  *)
(* returned code, or in st = "fatal" (report_fatal_error) with the         *)
(* diagnostic that fired: "range" or "verify".                             *)
(***************************************************************************)
CodecOk(c) == [st |-> "ok", diag |-> "none", code |-> c]

CodecFatal(d) == [st |-> "fatal", diag |-> d, code |-> 0]

\* The verification formula of imm5OpEncoder: exp + plus - sub.
imm5Decode(result) ==
    LET plus == BitAnd(Shr(result, 3), 2)
        sub  == BitAnd(result, 1)
        exp  == Shl(1, BitAnd(Shr(result, 1), 7))
    IN  exp + plus - sub

\* The verification formula of sImm5OpEncoder: sign * (exp - sub).
sImm5Decode(result) ==
    LET sign == IF Shr(result, 4) # 0 THEN -1 ELSE 1
        sub  == BitAnd(result, 1)
        exp  == Shl(1, BitAnd(Shr(result, 1), 7))
    IN  sign * (exp - sub)

\* imm5OpEncoder without the plus-two step.
imm5OpEncoder_NoPlusTwo(imm) ==
    IF imm = 0 THEN CodecOk(1)
    ELSE IF imm > 255 \/ imm < 0 THEN CodecFatal("range")
    ELSE
      LET odd    == CRem2(imm) = 1
          value1 == IF odd THEN imm + 1 ELSE imm
          res1   == IF odd THEN BitOr(0, 1) ELSE 0
          result == BitOr(res1, Shl(builtin_ctz(value1), 1))
      IN  IF imm5Decode(result) # imm THEN CodecFatal("verify")
          ELSE CodecOk(result)

\* imm5OpEncoder without the verification step.
imm5OpEncoder_NoVerify(imm) ==
    IF imm = 0 THEN CodecOk(1)
    ELSE IF imm > 255 \/ imm < 0 THEN CodecFatal("range")
    ELSE
      LET odd    == CRem2(imm) = 1
          value1 == IF odd THEN imm + 1 ELSE imm
          res1   == IF odd THEN BitOr(0, 1) ELSE 0
          two    == BitAnd(value1, 2) = 2 /\ value1 > 2
          value2 == IF two THEN value1 - 2 ELSE value1
          res2   == IF two THEN BitOr(res1, 16) ELSE res1
          result == BitOr(res2, Shl(builtin_ctz(value2), 1))
      IN  CodecOk(result)

imm5OpEncoder(imm) ==
    IF imm = 0 THEN CodecOk(1)
    ELSE IF imm > 255 \/ imm < 0 THEN CodecFatal("range")
    ELSE
      LET odd    == CRem2(imm) = 1
          value1 == IF odd THEN imm + 1 ELSE imm
          res1   == IF odd THEN BitOr(0, 1) ELSE 0
          two    == BitAnd(value1, 2) = 2 /\ value1 > 2
          value2 == IF two THEN value1 - 2 ELSE value1
          res2   == IF two THEN BitOr(res1, 16) ELSE res1
          result == BitOr(res2, Shl(builtin_ctz(value2), 1))
      IN  IF imm5Decode(result) # imm THEN CodecFatal("verify")
          ELSE CodecOk(result)

\* sImm5OpEncoder that leaves the sign flag clear.
sImm5OpEncoder_NoSign(imm) ==
    IF imm = 0 THEN CodecOk(1)
    ELSE IF imm > 127 \/ imm < -128 THEN CodecFatal("range")
    ELSE
      LET neg    == imm < 0
          value0 == IF neg THEN 0 - imm ELSE imm
          res0   == 0
          odd    == CRem2(value0) = 1
          value1 == IF odd THEN value0 + 1 ELSE value0
          res1   == IF odd THEN BitOr(res0, 1) ELSE res0
          result == BitOr(res1, Shl(builtin_ctz(value1), 1))
      IN  IF sImm5Decode(result) # imm THEN CodecFatal("verify")
          ELSE CodecOk(result)

\* sImm5OpEncoder whose range check lets 128 through.
sImm5OpEncoder_WideRange(imm) ==
    IF imm = 0 THEN CodecOk(1)
    ELSE IF imm > 128 \/ imm < -128 THEN CodecFatal("range")
    ELSE
      LET neg    == imm < 0
          value0 == IF neg THEN 0 - imm ELSE imm
          res0   == IF neg THEN 16 ELSE 0
          odd    == CRem2(value0) = 1
          value1 == IF odd THEN value0 + 1 ELSE value0
          res1   == IF odd THEN BitOr(res0, 1) ELSE res0
          result == BitOr(res1, Shl(builtin_ctz(value1), 1))
      IN  IF sImm5Decode(result) # imm THEN CodecFatal("verify")
          ELSE CodecOk(result)

sImm5OpEncoder(imm) ==
    IF imm = 0 THEN CodecOk(1)
    ELSE IF imm > 127 \/ imm < -128 THEN CodecFatal("range")
    ELSE
      LET neg    == imm < 0
          value0 == IF neg THEN 0 - imm ELSE imm
          res0   == IF neg THEN 16 ELSE 0
          odd    == CRem2(value0) = 1
          value1 == IF odd THEN value0 + 1 ELSE value0
          res1   == IF odd THEN BitOr(res0, 1) ELSE res0
          result == BitOr(res1, Shl(builtin_ctz(value1), 1))
      IN  IF sImm5Decode(result) # imm THEN CodecFatal("verify")
          ELSE CodecOk(result)

(***************************************************************************)
(* Expressions, operands, fixups.  An expression is an opaque MCExpr; the  *)
(* emitter only asks for its class (dyn_cast), the fixup kind a            *)
(* SparcMCExpr carries, whether it evaluates as an absolute value, and (in *)
(* assertions) the symbol its sub-expression names.                        *)
(***************************************************************************)
NoExpr == [cls |-> "none", kind |-> "none", abs |-> FALSE, val |-> 0, sym |-> "none"]

ConstantExpr(v) ==
    [cls |-> "MCConstantExpr", kind |-> "none", abs |-> TRUE, val |-> v, sym |-> "none"]

\* The values of the MCConstantExpr operands: 3 has a code in both codecs,
\* 11 has none, -4 is negative.
ConstVals == {3, 11, -4}

Exprs ==
    {ConstantExpr(v) : v \in ConstVals} \cup
    { \* %wplt30-style reference to the TLS helper
      [cls |-> "SparcMCExpr", kind |-> "fixup_sparc_wplt30", abs |-> FALSE,
       val |-> 0, sym |-> "__tls_get_addr"],
      \* %tgd_call(x): the TLS symbol operand
      [cls |-> "SparcMCExpr", kind |-> "fixup_sparc_tls_gd_call", abs |-> FALSE,
       val |-> 0, sym |-> "x"],
      \* %lo(8): annotated, and its sub-expression is a constant
      [cls |-> "SparcMCExpr", kind |-> "fixup_sparc_lo10", abs |-> TRUE,
       val |-> 8, sym |-> "none"],
      \* a plain symbol reference
      [cls |-> "MCSymbolRefExpr", kind |-> "none", abs |-> FALSE,
       val |-> 0, sym |-> "foo"],
      \* 2+2: a binary expression of constants
      [cls |-> "MCBinaryExpr", kind |-> "none", abs |-> TRUE,
       val |-> 4, sym |-> "none"] }

Regs == {"G0", "O7"}

\* Immediate operands: 0, a value both codecs encode, one neither encodes,
\* a negative one, and one outside both codec domains.
ImmVals == {0, 3, 11, -4, 300}

RegOp(r) == [k |-> "Reg", reg |-> r, imm |-> 0, expr |-> NoExpr]

ImmOp(v) == [k |-> "Imm", reg |-> "none", imm |-> v, expr |-> NoExpr]

ExprOp(e) == [k |-> "Expr", reg |-> "none", imm |-> 0, expr |-> e]

NoOperand == [k |-> "none", reg |-> "none", imm |-> 0, expr |-> NoExpr]

RegOperands == {RegOp(r) : r \in Regs}

ImmOperands == {ImmOp(v) : v \in ImmVals}

ExprOperands == {ExprOp(e) : e \in Exprs}

Operands == RegOperands \cup ImmOperands \cup ExprOperands

isReg(MO) == MO.k = "Reg"

isImm(MO) == MO.k = "Imm"

isExpr(MO) == MO.k = "Expr"

\* dyn_cast<SparcMCExpr>(Expr) is non-null.
isSparcMCExpr(e) == e.cls = "SparcMCExpr"

\* dyn_cast<MCConstantExpr>(Expr) is non-null.
isMCConstantExpr(e) == e.cls = "MCConstantExpr"

\* Expr->evaluateAsAbsolute(Res) succeeds (Res is then e.val).
evaluateAsAbsolute(e) == e.abs

\* MCRegisterInfo::getEncodingValue.
getEncodingValue(r) == IF r = "G0" THEN 0 ELSE 15

\* MCFixup::create(0, Expr, Kind).
Fixup(e, kind) == [Offset |-> 0, Value |-> e, Kind |-> kind]

FixupKinds ==
    {"fixup_sparc_13", "fixup_sparc_got13", "fixup_sparc_5", "fixup_sparc_got5",
     "fixup_sparc_br22", "fixup_sparc_br19", "fixup_sparc_br16_2",
     "fixup_sparc_br16_14", "fixup_sparc_wplt30", "fixup_sparc_tls_gd_call",
     "fixup_sparc_lo10"}

(***************************************************************************)
(* State.                                                                  *)
(***************************************************************************)
VARIABLES
    NDEBUG,        \* the build: assertions compiled out
    IsPic,         \* Ctx.getObjectFileInfo()->isPositionIndependent()
    MCNumEmitted,  \* STATISTIC(MCNumEmitted, ...)
    OS,            \* number of instruction words written to the stream (the
                   \* byte order chosen from isLittleEndian() orders the bytes
                   \* of a word; it does not change what is written when)
    Fixups,        \* the caller's fixup list, as the last call left it
    call,          \* the last call: function and arguments
    out            \* how the last call ended

vars == <<NDEBUG, IsPic, MCNumEmitted, OS, Fixups, call, out>>

(***************************************************************************)
(* Outcomes of an operand resolver: it returns ret having appended fx to   *)
(* the fixup list, or it ends the process (st = "fatal").                   *)
(***************************************************************************)
Ok(ret, fx) == [st |-> "ok", diag |-> "none", ret |-> ret, fx |-> fx]

Fatal(d) == [st |-> "fatal", diag |-> d, ret |-> ToUnsigned(0), fx |-> <<>>]

\* A failed assert(): aborts where assertions are compiled in.
AssertFailed == Fatal("assert")

\* Undefined behaviour (llvm_unreachable without assertions, a null or
\* non-expression pointer dereferenced): the process dies, or the function
\* goes on and returns with nothing or with a fixup of any kind recorded.
Undefined(e) ==
    {Fatal("crash"), Ok(ToUnsigned(0), <<>>)} \cup
    {Ok(ToUnsigned(0), <<Fixup(e, k)>>) : k \in FixupKinds}

(***************************************************************************)
(* The operand resolvers.  Each gives the set of outcomes the call can     *)
(* have for the operand MO (one outcome, except where the behaviour is     *)
(* undefined).                                                             *)
(***************************************************************************)
getMachineOpValue(MO) ==
    IF isReg(MO) THEN {Ok(ToUnsigned(getEncodingValue(MO.reg)), <<>>)}
    ELSE IF isImm(MO) THEN {Ok(ToUnsigned(MO.imm), <<>>)}
    ELSE IF isSparcMCExpr(MO.expr)
         THEN {Ok(ToUnsigned(0), <<Fixup(MO.expr, MO.expr.kind)>>)}
    ELSE IF evaluateAsAbsolute(MO.expr) THEN {Ok(ToUnsigned(MO.expr.val), <<>>)}
    \* llvm_unreachable("Unhandled expression!")
    ELSE IF NDEBUG THEN Undefined(MO.expr) ELSE {Fatal("unreachable")}

\* SImm13Kind that never looks at the expression's own kind.
SImm13Kind_IgnoreAnnotation(e) ==
    IF IsPic THEN "fixup_sparc_got13" ELSE "fixup_sparc_13"

\* The kind getSImm13OpValue gives an expression that is no MCConstantExpr.
SImm13Kind(e) ==
    IF isSparcMCExpr(e) THEN e.kind
    ELSE IF IsPic THEN "fixup_sparc_got13" ELSE "fixup_sparc_13"

\* getSImm13OpValue without the MCConstantExpr case.
getSImm13OpValue_NoConstantCheck(MO) ==
    IF isImm(MO) THEN {Ok(ToUnsigned(MO.imm), <<>>)}
    ELSE IF ~isExpr(MO) THEN (IF NDEBUG THEN Undefined(NoExpr) ELSE {AssertFailed})
    ELSE {Ok(ToUnsigned(0), <<Fixup(MO.expr, SImm13Kind(MO.expr))>>)}

getSImm13OpValue(MO) ==
    IF isImm(MO) THEN {Ok(ToUnsigned(MO.imm), <<>>)}
    \* assert(MO.isExpr() && ...); without it MO.getExpr() reads a register
    ELSE IF ~isExpr(MO) THEN (IF NDEBUG THEN Undefined(NoExpr) ELSE {AssertFailed})
    ELSE IF isMCConstantExpr(MO.expr) THEN {Ok(ToUnsigned(MO.expr.val), <<>>)}
    ELSE {Ok(ToUnsigned(0), <<Fixup(MO.expr, SImm13Kind(MO.expr))>>)}

\* The value a compact codec hands back through a resolver.
CodecResult(c) ==
    IF c.st = "ok" THEN Ok(ToUnsigned(c.code), <<>>) ELSE Fatal(c.diag)

\* The kind getImm5OpValue and getSImm5OpValue give an expression that is no
\* MCConstantExpr.
Imm5Kind(e) ==
    IF isSparcMCExpr(e) THEN e.kind
    ELSE IF IsPic THEN "fixup_sparc_got5" ELSE "fixup_sparc_5"

getImm5OpValue(MO) ==
    IF isImm(MO) THEN {CodecResult(imm5OpEncoder(MO.imm))}
    ELSE IF ~isExpr(MO) THEN (IF NDEBUG THEN Undefined(NoExpr) ELSE {AssertFailed})
    ELSE IF isMCConstantExpr(MO.expr) THEN {CodecResult(imm5OpEncoder(MO.expr.val))}
    ELSE {Ok(ToUnsigned(0), <<Fixup(MO.expr, Imm5Kind(MO.expr))>>)}

getSImm5OpValue(MO) ==
    IF isImm(MO) THEN {CodecResult(sImm5OpEncoder(MO.imm))}
    ELSE IF ~isExpr(MO) THEN (IF NDEBUG THEN Undefined(NoExpr) ELSE {AssertFailed})
    ELSE IF isMCConstantExpr(MO.expr) THEN {CodecResult(sImm5OpEncoder(MO.expr.val))}
    ELSE {Ok(ToUnsigned(0), <<Fixup(MO.expr, Imm5Kind(MO.expr))>>)}

\* The assertions of the TLS_CALL branch of getCallTargetOpValue.
TlsCalleeAsserts(e) == isSparcMCExpr(e) /\ e.sym = "__tls_get_addr"

getCallTargetOpValue(Opcode, MO) ==
    \* MO.getExpr() asserts isExpr(); without the assertion the dyn_cast
    \* reads through a pointer that is none
    IF ~isExpr(MO) THEN (IF NDEBUG THEN Undefined(NoExpr) ELSE {AssertFailed})
    ELSE IF Opcode = "TLS_CALL"
         THEN (IF ~NDEBUG /\ ~TlsCalleeAsserts(MO.expr) THEN {AssertFailed}
               ELSE {Ok(ToUnsigned(0), <<>>)})
    \* SExpr->getFixupKind() on a null SExpr
    ELSE IF ~isSparcMCExpr(MO.expr) THEN Undefined(MO.expr)
    ELSE {Ok(ToUnsigned(0), <<Fixup(MO.expr, MO.expr.kind)>>)}

\* getBranchTargetOpValue that passes only registers on.
getBranchTargetOpValue_OnlyReg(MO) ==
    IF isReg(MO) THEN getMachineOpValue(MO)
    ELSE {Ok(ToUnsigned(0), <<Fixup(MO.expr, "fixup_sparc_br22")>>)}

getBranchTargetOpValue(MO) ==
    IF isReg(MO) \/ isImm(MO) THEN getMachineOpValue(MO)
    ELSE {Ok(ToUnsigned(0), <<Fixup(MO.expr, "fixup_sparc_br22")>>)}

getBranchPredTargetOpValue(MO) ==
    IF isReg(MO) \/ isImm(MO) THEN getMachineOpValue(MO)
    ELSE {Ok(ToUnsigned(0), <<Fixup(MO.expr, "fixup_sparc_br19")>>)}

\* The two pushes of getBranchOnRegTargetOpValue in the other order.
BranchOnRegFixups_Swapped(e) ==
    <<Fixup(e, "fixup_sparc_br16_14"), Fixup(e, "fixup_sparc_br16_2")>>

\* The two fixups getBranchOnRegTargetOpValue pushes, in push order.
BranchOnRegFixups(e) ==
    <<Fixup(e, "fixup_sparc_br16_2"), Fixup(e, "fixup_sparc_br16_14")>>

getBranchOnRegTargetOpValue(MO) ==
    IF isReg(MO) \/ isImm(MO) THEN getMachineOpValue(MO)
    ELSE {Ok(ToUnsigned(0), BranchOnRegFixups(MO.expr))}

OperandRoles ==
    {"Generic", "SImm13", "Imm5", "SImm5", "CallTarget", "BranchTarget",
     "BranchPredTarget", "BranchOnRegTarget"}

\* The resolver the bit-layout table calls for an operand of the given role.
Resolve(role, Opcode, MO) ==
    CASE role = "Generic"           -> getMachineOpValue(MO)
      [] role = "SImm13"            -> getSImm13OpValue(MO)
      [] role = "Imm5"              -> getImm5OpValue(MO)
      [] role = "SImm5"             -> getSImm5OpValue(MO)
      [] role = "CallTarget"        -> getCallTargetOpValue(Opcode, MO)
      [] role = "BranchTarget"      -> getBranchTargetOpValue(MO)
      [] role = "BranchPredTarget"  -> getBranchPredTargetOpValue(MO)
      [] role = "BranchOnRegTarget" -> getBranchOnRegTargetOpValue(MO)

(***************************************************************************)
(* Instructions.  The bit-layout table (SparcGenMCCodeEmitter.inc) is      *)
(* generated; what is kept of it is, per opcode, which operands it places  *)
(* in the word and through which resolver.                                 *)
(***************************************************************************)
TlsRegOpcodes == {"TLS_ADDrr", "TLS_ADDXrr", "TLS_LDrr", "TLS_LDXrr"}

TlsOpcodes == {"TLS_CALL"} \cup TlsRegOpcodes

Opcodes ==
    TlsOpcodes \cup {"CALL", "BA", "BPICC", "BPZnapt", "ADDri", "IMM5ri", "SIMM5ri"}

\* The roles of the operands the table places, in operand order.
LayoutRoles(Opcode) ==
    CASE Opcode \in {"TLS_CALL", "CALL"} -> <<"CallTarget">>
      [] Opcode \in TlsRegOpcodes        -> <<"Generic", "Generic", "Generic">>
      [] Opcode = "BA"                   -> <<"BranchTarget">>
      [] Opcode = "BPICC"                -> <<"BranchPredTarget", "Generic">>
      [] Opcode = "BPZnapt"              -> <<"BranchOnRegTarget", "Generic">>
      [] Opcode = "ADDri"                -> <<"Generic", "Generic", "SImm13">>
      [] Opcode = "IMM5ri"               -> <<"Generic", "Generic", "Imm5">>
      [] Opcode = "SIMM5ri"              -> <<"Generic", "Generic", "SImm5">>

\* The operands an instruction of the opcode is built with, per position.
OperandSlots(Opcode) ==
    CASE Opcode = "TLS_CALL"      -> <<Operands, Operands>>
      [] Opcode \in TlsRegOpcodes -> <<RegOperands, RegOperands, RegOperands, Operands>>
      [] Opcode \in {"CALL", "BA"} -> <<Operands>>
      [] Opcode = "BPICC"         -> <<Operands, {ImmOp(3)}>>
      [] Opcode = "BPZnapt"       -> <<Operands, RegOperands>>
      [] Opcode \in {"ADDri", "IMM5ri", "SIMM5ri"} ->
              <<RegOperands, RegOperands, Operands>>

Instructions ==
    UNION { { [Opcode |-> opc, Operands |-> ops] :
                ops \in { s \in [1..Len(OperandSlots(opc)) -> Operands] :
                            \A i \in 1..Len(OperandSlots(opc)) :
                                s[i] \in OperandSlots(opc)[i] } } :
            opc \in Opcodes }

NoInst == [Opcode |-> "none", Operands |-> <<>>]

\* MI.getOperand(i): operands are numbered from 0.
getOperand(MI, i) == MI.Operands[i + 1]

\* The table's walk over the first n placed operands: the resolved values
\* in vals, the fixups appended in fx; a fatal resolver ends the walk.
RECURSIVE Place(_, _)
Place(MI, n) ==
    IF n = 0 THEN {[st |-> "ok", diag |-> "none", vals |-> <<>>, fx |-> <<>>]}
    ELSE UNION {
           IF p.st = "fatal" THEN {p}
           ELSE { [st   |-> r.st,
                   diag |-> r.diag,
                   vals |-> IF r.st = "ok" THEN Append(p.vals, r.ret) ELSE p.vals,
                   fx   |-> p.fx \o r.fx] :
                  r \in Resolve(LayoutRoles(MI.Opcode)[n], MI.Opcode,
                                getOperand(MI, n - 1)) } :
           p \in Place(MI, n - 1) }

getBinaryCodeForInstr(MI) == Place(MI, Len(LayoutRoles(MI.Opcode)))

\* verifyInstructionPredicates: the opcode's subtarget predicates hold.
verifyInstructionPredicates(featuresOK) == featuresOK

\* The switch with the case label of TLS_LDXrr missing.
tlsOpNo_MissingCase(Opcode) ==
    CASE Opcode = "TLS_CALL"                            -> 1
      [] Opcode \in {"TLS_ADDrr", "TLS_ADDXrr", "TLS_LDrr"} -> 3
      [] OTHER                                          -> 0

\* The switch of encodeInstruction: the index of the TLS symbol operand.
tlsOpNo(Opcode) ==
    CASE Opcode = "TLS_CALL"      -> 1
      [] Opcode \in TlsRegOpcodes -> 3
      [] OTHER                    -> 0

\* The counter left alone.
Increment_Skipped(n) == n

\* ++MCNumEmitted
Increment(n) == n + 1

(***************************************************************************)
(* encodeInstruction: the set of ways the call can end.  wrote: the word   *)
(* reached the stream; emitted: the counter was incremented; nLayout: the  *)
(* fixups appended when the word was written; op: the value resolved for   *)
(* the TLS symbol operand.                                                 *)
(***************************************************************************)
EncEnd(st, diag, bits, fx, nLayout, wrote, op, emitted) ==
    [st |-> st, diag |-> diag, bits |-> bits, fx |-> fx, nLayout |-> nLayout,
     wrote |-> wrote, op |-> op, emitted |-> emitted]

\* Lines 119-135: after the word is written.
PostProcess(MI, p) ==
    IF tlsOpNo(MI.Opcode) = 0
    THEN {EncEnd("ok", "none", p.vals, p.fx, Len(p.fx), TRUE, ToUnsigned(0), TRUE)}
    ELSE { IF r.st = "fatal"
           THEN EncEnd("fatal", r.diag, p.vals, p.fx, Len(p.fx), TRUE,
                       ToUnsigned(0), FALSE)
           \* assert(op == 0 && "Unexpected operand value!")
           ELSE IF ~NDEBUG /\ r.ret # ToUnsigned(0)
           THEN EncEnd("fatal", "assert", p.vals, p.fx \o r.fx, Len(p.fx), TRUE,
                       r.ret, FALSE)
           ELSE EncEnd("ok", "none", p.vals, p.fx \o r.fx, Len(p.fx), TRUE,
                       r.ret, TRUE) :
           r \in getMachineOpValue(getOperand(MI, tlsOpNo(MI.Opcode))) }

encodeInstruction(MI, featuresOK) ==
    IF ~verifyInstructionPredicates(featuresOK)
    THEN {EncEnd("fatal", "predicate", <<>>, <<>>, 0, FALSE, ToUnsigned(0), FALSE)}
    ELSE UNION {
           IF p.st = "fatal"
           THEN {EncEnd("fatal", p.diag, p.vals, p.fx, Len(p.fx), FALSE,
                        ToUnsigned(0), FALSE)}
           ELSE PostProcess(MI, p) :
           p \in getBinaryCodeForInstr(MI) }

(***************************************************************************)
(* The calls.  The fixup list is the caller's: a call starts on a list     *)
(* FixupsIn the caller hands in and leaves it in Fixups.  The caller takes *)
(* the result of a call that returned (Return) before it makes the next    *)
(* one; a fatal error ends the process, and no call follows it.            *)
(***************************************************************************)
ImmRange == (0 - MaxImm) .. MaxImm

\* A fixup an earlier operand left in the caller's list.
PriorFixup ==
    Fixup([cls |-> "MCSymbolRefExpr", kind |-> "none", abs |-> FALSE,
           val |-> 0, sym |-> "foo"], "fixup_sparc_13")

FixupInputs == { [i \in 1..n |-> PriorFixup] : n \in 0..MaxPrior }

Call(fn, imm, MO, MI, featuresOK, FixupsIn) ==
    [fn |-> fn, imm |-> imm, MO |-> MO, MI |-> MI, featuresOK |-> featuresOK,
     FixupsIn |-> FixupsIn]

Out(st, diag, code, ret, bits, nLayout, op) ==
    [st |-> st, diag |-> diag, code |-> code, ret |-> ret, bits |-> bits,
     nLayout |-> nLayout, op |-> op]

\* The process is alive and no result is pending.
Ready == out.st = "none"

Init ==
    /\ NDEBUG \in BOOLEAN
    /\ IsPic \in BOOLEAN
    /\ MCNumEmitted = 0
    /\ OS = 0
    /\ Fixups = <<>>
    /\ call = Call("none", 0, NoOperand, NoInst, TRUE, <<>>)
    /\ out = Out("none", "none", 0, ToUnsigned(0), <<>>, 0, ToUnsigned(0))

\* A direct call of a codec.
CodecCall(fn, imm, c) ==
    /\ call' = Call(fn, imm, NoOperand, NoInst, TRUE, <<>>)
    /\ out' = Out(c.st, c.diag, c.code, ToUnsigned(0), <<>>, 0, ToUnsigned(0))
    /\ UNCHANGED <<NDEBUG, IsPic, MCNumEmitted, OS, Fixups>>

CallImm5OpEncoder ==
    /\ Ready
    /\ \E imm \in ImmRange : CodecCall("imm5OpEncoder", imm, imm5OpEncoder(imm))

CallSImm5OpEncoder ==
    /\ Ready
    /\ \E imm \in ImmRange : CodecCall("sImm5OpEncoder", imm, sImm5OpEncoder(imm))

\* A direct call of an operand resolver that ends as r.
ResolverCall(fn, Opcode, MO, FixupsIn, r) ==
    /\ call' = Call(fn, 0, MO, [Opcode |-> Opcode, Operands |-> <<MO>>], TRUE, FixupsIn)
    /\ out' = Out(r.st, r.diag, 0, r.ret, <<>>, 0, ToUnsigned(0))
    /\ Fixups' = FixupsIn \o r.fx
    /\ UNCHANGED <<NDEBUG, IsPic, MCNumEmitted, OS>>

CallGetMachineOpValue ==
    /\ Ready
    /\ \E MO \in Operands, pre \in FixupInputs : \E r \in getMachineOpValue(MO) :
        ResolverCall("getMachineOpValue", "none", MO, pre, r)

CallGetSImm13OpValue ==
    /\ Ready
    /\ \E MO \in Operands, pre \in FixupInputs : \E r \in getSImm13OpValue(MO) :
        ResolverCall("getSImm13OpValue", "none", MO, pre, r)

CallGetImm5OpValue ==
    /\ Ready
    /\ \E MO \in Operands, pre \in FixupInputs : \E r \in getImm5OpValue(MO) :
        ResolverCall("getImm5OpValue", "none", MO, pre, r)

CallGetSImm5OpValue ==
    /\ Ready
    /\ \E MO \in Operands, pre \in FixupInputs : \E r \in getSImm5OpValue(MO) :
        ResolverCall("getSImm5OpValue", "none", MO, pre, r)

CallGetCallTargetOpValue ==
    /\ Ready
    /\ \E Opcode \in {"CALL", "TLS_CALL"}, MO \in Operands, pre \in FixupInputs :
        \E r \in getCallTargetOpValue(Opcode, MO) :
            ResolverCall("getCallTargetOpValue", Opcode, MO, pre, r)

CallGetBranchTargetOpValue ==
    /\ Ready
    /\ \E MO \in Operands, pre \in FixupInputs : \E r \in getBranchTargetOpValue(MO) :
        ResolverCall("getBranchTargetOpValue", "none", MO, pre, r)

CallGetBranchPredTargetOpValue ==
    /\ Ready
    /\ \E MO \in Operands, pre \in FixupInputs : \E r \in getBranchPredTargetOpValue(MO) :
        ResolverCall("getBranchPredTargetOpValue", "none", MO, pre, r)

CallGetBranchOnRegTargetOpValue ==
    /\ Ready
    /\ \E MO \in Operands, pre \in FixupInputs : \E r \in getBranchOnRegTargetOpValue(MO) :
        ResolverCall("getBranchOnRegTargetOpValue", "none", MO, pre, r)

CallEncodeInstruction ==
    /\ Ready
    /\ MCNumEmitted < MaxEmitted
    /\ \E MI \in Instructions, featuresOK \in BOOLEAN, pre \in FixupInputs :
        \E e \in encodeInstruction(MI, featuresOK) :
            /\ call' = Call("encodeInstruction", 0, NoOperand, MI, featuresOK, pre)
            /\ out' = Out(e.st, e.diag, 0, ToUnsigned(0), e.bits, e.nLayout, e.op)
            /\ Fixups' = pre \o e.fx
            /\ OS' = IF e.wrote THEN OS + 1 ELSE OS
            /\ MCNumEmitted' = IF e.emitted THEN Increment(MCNumEmitted)
                               ELSE MCNumEmitted
            /\ UNCHANGED <<NDEBUG, IsPic>>

\* The caller takes the result and the fixups of a call that returned.
Return ==
    /\ out.st = "ok"
    /\ call' = Call("none", 0, NoOperand, NoInst, TRUE, <<>>)
    /\ out' = Out("none", "none", 0, ToUnsigned(0), <<>>, 0, ToUnsigned(0))
    /\ Fixups' = <<>>
    /\ UNCHANGED <<NDEBUG, IsPic, MCNumEmitted, OS>>

Next ==
    \/ CallImm5OpEncoder
    \/ CallSImm5OpEncoder
    \/ CallGetMachineOpValue
    \/ CallGetSImm13OpValue
    \/ CallGetImm5OpValue
    \/ CallGetSImm5OpValue
    \/ CallGetCallTargetOpValue
    \/ CallGetBranchTargetOpValue
    \/ CallGetBranchPredTargetOpValue
    \/ CallGetBranchOnRegTargetOpValue
    \/ CallEncodeInstruction
    \/ Return

Spec == Init /\ [][Next]_vars

(***************************************************************************)
(* Vocabulary of the properties.                                           *)
(***************************************************************************)
\* The last call was fn and has ended (returned or died).
Ended(fn) == call.fn = fn /\ out.st \in {"ok", "fatal"}

\* The last call was fn and returned.
Returned(fn) == call.fn = fn /\ out.st = "ok"

\* The fixups the last call appended to the list it was handed.
Appended == SubSeq(Fixups, Len(call.FixupsIn) + 1, Len(Fixups))

\* The list the call was handed is still the head of the list it left.
KeepsPrior ==
    /\ Len(Fixups) >= Len(call.FixupsIn)
    /\ SubSeq(Fixups, 1, Len(call.FixupsIn)) = call.FixupsIn

\* 2^((c>>1)&7) + 2*((c>>4)&1) - (c&1)
MagnitudeValue(c) == Pow2((c \div 2) % 8) + 2 * ((c \div 16) % 2) - (c % 2)

\* s * (2^((c>>1)&7) - (c&1)), s = -1 when bit 4 of c is set and +1 otherwise
SignedValue(c) ==
    (IF (c \div 16) % 2 = 1 THEN -1 ELSE 1) * (Pow2((c \div 2) % 8) - (c % 2))

\* The values the magnitude form has a code for: 0, 2^k and 2^k - 1 for
\* k in 1..7, 2^k + 2 and 2^k + 1 for k in 2..7.
MagnitudeRepresentable ==
    {0} \cup {Pow2(k) - s : k \in 1..7, s \in {0, 1}}
        \cup {Pow2(k) + 2 - s : k \in 2..7, s \in {0, 1}}

\* The values of [-128,127] the signed form has a code for: 0 and
\* +-(2^k - s) for k in 1..7, s in {0,1}.
SignedRepresentable ==
    ({0} \cup {Pow2(k) - s : k \in 1..7, s \in {0, 1}}
         \cup {0 - (Pow2(k) - s) : k \in 1..7, s \in {0, 1}}) \cap (-128..127)

(***************************************************************************)
(* C1.  Original statement: for every v in [0,255], imm5OpEncoder(v)       *)
(* returns, without a fatal error, a code c with                           *)
(* 2^((c>>1)&7) + 2*((c>>4)&1) - (c&1) = v.                                *)
(***************************************************************************)
C1_Original ==
    (Ended("imm5OpEncoder") /\ call.imm \in 0..255)
        => (out.st = "ok" /\ MagnitudeValue(out.code) = call.imm)

\* C1 as amended: for every v in [0,255], imm5OpEncoder(v) returns a code c
\* with 2^((c>>1)&7) + 2*((c>>4)&1) - (c&1) = v when v is one of the 27
\* representable values (0; 2^k, 2^k - 1 for k in 1..7; 2^k + 2, 2^k + 1 for
\* k in 2..7), and ends in the verification fatal error for every other v.
C1_Amended ==
    (Ended("imm5OpEncoder") /\ call.imm \in 0..255)
        => IF call.imm \in MagnitudeRepresentable
           THEN out.st = "ok" /\ MagnitudeValue(out.code) = call.imm
           ELSE out.st = "fatal" /\ out.diag = "verify"

C1_Witness ==
    /\ Returned("imm5OpEncoder") /\ call.imm = 130 /\ out.code = 30

(***************************************************************************)
(* C2.  Original statement: for every v in [-128,127], sImm5OpEncoder(v)   *)
(* returns, without a fatal error, a code c with                           *)
(* s * (2^((c>>1)&7) - (c&1)) = v.                                         *)
(***************************************************************************)
C2_Original ==
    (Ended("sImm5OpEncoder") /\ call.imm \in -128..127)
        => (out.st = "ok" /\ SignedValue(out.code) = call.imm)

\* C2 as amended: for every v in [-128,127], sImm5OpEncoder(v) returns a
\* code c with s * (2^((c>>1)&7) - (c&1)) = v when v is one of the 28
\* representable values (0; +-2^k and +-(2^k - 1) for k in 1..7, 128
\* excluded), and ends in the verification fatal error for every other v.
C2_Amended ==
    (Ended("sImm5OpEncoder") /\ call.imm \in -128..127)
        => IF call.imm \in SignedRepresentable
           THEN out.st = "ok" /\ SignedValue(out.code) = call.imm
           ELSE out.st = "fatal" /\ out.diag = "verify"

C2_Witness ==
    /\ Returned("sImm5OpEncoder") /\ call.imm = -127 /\ out.code = 31

(***************************************************************************)
(* C3.  For every input, inside or outside the declared domain, each codec *)
(* either ends in a fatal error or returns a code c in 0..31 whose value   *)
(* under that codec's verification formula is the input; this includes the *)
(* inputs whose odd-adjustment carries the magnitude to 256.               *)
(***************************************************************************)
C3_NeverWrongCode ==
    /\ Ended("imm5OpEncoder") =>
          \/ out.st = "fatal"
          \/ out.st = "ok" /\ out.code \in 0..31
                /\ MagnitudeValue(out.code) = call.imm
    /\ Ended("sImm5OpEncoder") =>
          \/ out.st = "fatal"
          \/ out.st = "ok" /\ out.code \in 0..31
                /\ SignedValue(out.code) = call.imm

\* 255 is odd: the adjustment makes it 256, whose lowest set bit is bit 8.
C3_Witness ==
    /\ Ended("imm5OpEncoder") /\ call.imm = 255
    /\ out.st = "fatal" /\ out.diag = "verify"

(***************************************************************************)
(* C4.  For every v outside [0,255], imm5OpEncoder(v) ends in the          *)
(* domain-range fatal error, and so does sImm5OpEncoder(v) for every v     *)
(* outside [-128,127]: the range check is the failure that fires and no    *)
(* code is returned.                                                       *)
(***************************************************************************)
C4_OutOfDomainIsRangeError ==
    /\ (Ended("imm5OpEncoder") /\ call.imm \notin 0..255)
          => (out.st = "fatal" /\ out.diag = "range")
    /\ (Ended("sImm5OpEncoder") /\ call.imm \notin -128..127)
          => (out.st = "fatal" /\ out.diag = "range")

C4_Witness ==
    /\ Ended("sImm5OpEncoder") /\ call.imm = 128
    /\ out.st = "fatal" /\ out.diag = "range"

(***************************************************************************)
(* C5.  For an expression operand getBranchOnRegTargetOpValue returns 0    *)
(* and appends exactly two fixups, both with offset 0 and both naming the  *)
(* operand's expression, fixup_sparc_br16_2 first and fixup_sparc_br16_14  *)
(* second; the fixups already in the list stay ahead of them.              *)
(***************************************************************************)
C5_TwoFixupsInOrder ==
    (Ended("getBranchOnRegTargetOpValue") /\ isExpr(call.MO))
        => /\ out.st = "ok"
           /\ out.ret = ToUnsigned(0)
           /\ Fixups = call.FixupsIn \o
                  <<[Offset |-> 0, Value |-> call.MO.expr,
                     Kind |-> "fixup_sparc_br16_2"],
                    [Offset |-> 0, Value |-> call.MO.expr,
                     Kind |-> "fixup_sparc_br16_14"]>>

C5_Witness ==
    /\ Returned("getBranchOnRegTargetOpValue") /\ isExpr(call.MO)
    /\ Len(call.FixupsIn) = 1 /\ Len(Fixups) = 3

(***************************************************************************)
(* C6.  Original statement: whenever the operand is an expression carrying *)
(* a relocation-kind annotation, every fixup appended for it carries the   *)
(* annotated kind, for every operand role.                                 *)
(***************************************************************************)
ResolverFns ==
    {"getMachineOpValue", "getSImm13OpValue", "getImm5OpValue", "getSImm5OpValue",
     "getCallTargetOpValue", "getBranchTargetOpValue",
     "getBranchPredTargetOpValue", "getBranchOnRegTargetOpValue"}

\* A resolver returned on an expression operand that carries an annotation.
AnnotatedCall ==
    /\ call.fn \in ResolverFns /\ out.st = "ok"
    /\ isExpr(call.MO) /\ call.MO.expr.cls = "SparcMCExpr"

C6_Original ==
    AnnotatedCall =>
        \A i \in 1..Len(Appended) : Appended[i].Kind = call.MO.expr.kind

PicDefaultKinds ==
    {"fixup_sparc_13", "fixup_sparc_got13", "fixup_sparc_5", "fixup_sparc_got5"}

\* C6 as amended: for an annotated expression the generic, signed 13-bit,
\* 5-bit and call-target resolvers append exactly one fixup, with the
\* annotated kind (the call target of a TLS_CALL appends none); the three
\* branch-displacement resolvers ignore the annotation and append their
\* fixed tags (br22; br19; br16_2 then br16_14).  The PIC-dependent default
\* tags are used only for an expression without annotation.
C6_Amended ==
    /\ AnnotatedCall =>
         LET e == call.MO.expr
             annotated == <<[Offset |-> 0, Value |-> e, Kind |-> e.kind]>>
             fixed(k) == [Offset |-> 0, Value |-> e, Kind |-> k]
         IN  /\ KeepsPrior
             /\ call.fn \in {"getMachineOpValue", "getSImm13OpValue",
                             "getImm5OpValue", "getSImm5OpValue"}
                   => Appended = annotated
             /\ call.fn = "getCallTargetOpValue"
                   => Appended = IF call.MI.Opcode = "TLS_CALL" THEN <<>>
                                 ELSE annotated
             /\ call.fn = "getBranchTargetOpValue"
                   => Appended = <<fixed("fixup_sparc_br22")>>
             /\ call.fn = "getBranchPredTargetOpValue"
                   => Appended = <<fixed("fixup_sparc_br19")>>
             /\ call.fn = "getBranchOnRegTargetOpValue"
                   => Appended = <<fixed("fixup_sparc_br16_2"),
                                   fixed("fixup_sparc_br16_14")>>
    /\ (/\ call.fn \in {"getSImm13OpValue", "getImm5OpValue", "getSImm5OpValue"}
        /\ out.st = "ok" /\ isExpr(call.MO)
        /\ \E i \in 1..Len(Appended) : Appended[i].Kind \in PicDefaultKinds)
          => /\ call.MO.expr.cls # "SparcMCExpr"
             /\ Appended[1].Kind =
                  IF call.fn = "getSImm13OpValue"
                  THEN (IF IsPic THEN "fixup_sparc_got13" ELSE "fixup_sparc_13")
                  ELSE (IF IsPic THEN "fixup_sparc_got5" ELSE "fixup_sparc_5")

C6_Witness ==
    /\ AnnotatedCall /\ call.fn = "getSImm13OpValue"
    /\ Appended = <<[Offset |-> 0, Value |-> call.MO.expr,
                     Kind |-> "fixup_sparc_lo10"]>>

(***************************************************************************)
(* C7.  getBranchTargetOpValue: a register operand gives the register's    *)
(* encoding value and an immediate operand gives the immediate (both as    *)
(* the unsigned the function returns), the fixup list unchanged; an        *)
(* expression operand gives 0 and appends exactly one fixup with offset 0, *)
(* the operand's expression and the kind fixup_sparc_br22.                 *)
(***************************************************************************)
C7_BranchTarget ==
    Ended("getBranchTargetOpValue") =>
        /\ out.st = "ok"
        /\ call.MO.k = "Reg" =>
              /\ out.ret = ToUnsigned(IF call.MO.reg = "G0" THEN 0 ELSE 15)
              /\ Fixups = call.FixupsIn
        /\ call.MO.k = "Imm" =>
              /\ out.ret = ToUnsigned(call.MO.imm)
              /\ Fixups = call.FixupsIn
        /\ call.MO.k = "Expr" =>
              /\ out.ret = ToUnsigned(0)
              /\ Fixups = call.FixupsIn \o
                     <<[Offset |-> 0, Value |-> call.MO.expr,
                        Kind |-> "fixup_sparc_br22"]>>

C7_Witness ==
    /\ Returned("getBranchTargetOpValue") /\ call.MO.k = "Imm" /\ call.MO.imm = 3
    /\ Len(call.FixupsIn) = 1 /\ Fixups = call.FixupsIn

(***************************************************************************)
(* C8.  Original statement: when encodeInstruction encodes a TLS_CALL,     *)
(* resolving the call-target operand (an expression) returns 0 and appends *)
(* no fixup; the post-processing step resolves the TLS symbol operand      *)
(* (index 1; index 3 for TLS_ADDrr, TLS_ADDXrr, TLS_LDrr, TLS_LDXrr), which *)
(* yields 0 and appends exactly one fixup for that operand, after every    *)
(* fixup of the bit-layout placement; for every other opcode the           *)
(* post-processing step appends no fixup.                                  *)
(***************************************************************************)
\* The operand the statement designates.
TlsSymOperand(MI) == MI.Operands[(IF MI.Opcode = "TLS_CALL" THEN 1 ELSE 3) + 1]

IsTlsOpcode(Opcode) ==
    Opcode \in {"TLS_CALL", "TLS_ADDrr", "TLS_ADDXrr", "TLS_LDrr", "TLS_LDXrr"}

\* The fixups appended after the word was written.
PostFixups == SubSeq(Fixups, Len(call.FixupsIn) + out.nLayout + 1, Len(Fixups))

\* The call-target part, common to the statement and its amended form.
C8_CallTargetPart ==
    (call.MI.Opcode = "TLS_CALL" /\ call.MI.Operands[1].k = "Expr")
        => /\ out.bits = <<ToUnsigned(0)>>
           /\ out.nLayout = 0

C9_CounterCountsCompletedCalls ==
    [][ MCNumEmitted' =
          IF call'.fn = "encodeInstruction" /\ out'.st = "ok"
          THEN MCNumEmitted + 1
          ELSE MCNumEmitted ]_vars

C9_Witness ==
    /\ Returned("encodeInstruction") /\ MCNumEmitted >= 2 /\ OS >= 2

(***************************************************************************)
(* C10.  Original statement: for every operand resolver, an expression     *)
(* operand that folds to a constant is treated as a constant: the resolver *)
(* returns it (through the compact codec for the 5-bit roles) and leaves   *)
(* the fixup list unchanged.                                               *)
(***************************************************************************)
FoldingFns ==
    {"getMachineOpValue", "getSImm13OpValue", "getImm5OpValue", "getSImm5OpValue",
     "getBranchTargetOpValue", "getBranchPredTargetOpValue",
     "getBranchOnRegTargetOpValue"}

\* The last call ended as the constant v, handed back as it is (codec
\* "none") or through a compact codec, with the fixup list unchanged.
TreatedAsConstant(v) ==
    LET c == IF call.fn = "getImm5OpValue" THEN imm5OpEncoder(v)
             ELSE sImm5OpEncoder(v)
    IN  /\ Fixups = call.FixupsIn
        /\ IF call.fn \in {"getImm5OpValue", "getSImm5OpValue"}
           THEN /\ out.st = c.st
                /\ out.diag = c.diag
                /\ c.st = "ok" => out.ret = ToUnsigned(c.code)
           ELSE out.st = "ok" /\ out.ret = ToUnsigned(v)

C10_Original ==
    (call.fn \in FoldingFns /\ out.st \in {"ok", "fatal"}
       /\ call.MO.k = "Expr" /\ call.MO.expr.abs)
        => TreatedAsConstant(call.MO.expr.val)

\* C10 as amended: getMachineOpValue treats as a constant an expression
\* without annotation that folds (an annotated one gets its fixup, folding
\* or not); getSImm13OpValue, getImm5OpValue and getSImm5OpValue treat as a
\* constant only an expression that is itself a constant (MCConstantExpr)
\* and append one fixup for every other expression, folding or not; the
\* three branch resolvers never fold: every expression gets its fixup(s).
C10_Amended ==
    (call.fn \in FoldingFns /\ out.st \in {"ok", "fatal"} /\ call.MO.k = "Expr")
        => LET e == call.MO.expr
           IN  /\ call.fn = "getMachineOpValue" =>
                    IF e.cls = "SparcMCExpr"
                    THEN out.st = "ok" /\ out.ret = ToUnsigned(0) /\ Len(Appended) = 1
                    ELSE e.abs => TreatedAsConstant(e.val)
               /\ call.fn \in {"getSImm13OpValue", "getImm5OpValue",
                               "getSImm5OpValue"} =>
                    IF e.cls = "MCConstantExpr"
                    THEN TreatedAsConstant(e.val)
                    ELSE out.st = "ok" /\ out.ret = ToUnsigned(0) /\ Len(Appended) = 1
               /\ call.fn \in {"getBranchTargetOpValue",
                               "getBranchPredTargetOpValue"} =>
                    out.st = "ok" /\ out.ret = ToUnsigned(0) /\ Len(Appended) = 1
               /\ call.fn = "getBranchOnRegTargetOpValue" =>
                    out.st = "ok" /\ out.ret = ToUnsigned(0) /\ Len(Appended) = 2
               /\ KeepsPrior

C10_Witness ==
    /\ Returned("getSImm13OpValue") /\ call.MO.k = "Expr"
    /\ call.MO.expr.cls = "MCConstantExpr" /\ call.MO.expr.val = 3
    /\ out.ret = ToUnsigned(3)
    /\ Len(call.FixupsIn) = 1 /\ Fixups = call.FixupsIn

====
